---- MODULE Spec2Model ----
(***************************************************************************)
(* State-machine model of the cross-training matrix scheduler:             *)
(*   scheduler/models.py     Station, Employee, Assignment, AssignmentLog, *)
(*                           RotationStats, ScenarioWeights                *)
(*   scheduler/scheduler.py  MatrixScheduler                               *)
(*   app.py                  the presentation layer's direct mutations of  *)
(*                           the scheduler (presence toggle, manual        *)
(*                           override)                                     *)
(*                                                                         *)
(* Python dicts are insertion ordered: `stations` and `assignments` are    *)
(* sequences of records with unique ids.  Python sets of strings iterate   *)
(* in hash order, which differs from run to run: every iteration over      *)
(* available_employees is a nondeterministic choice of an order.           *)
(* Weights are held in hundredths and scores in 240ths, so that the        *)
(* priority is an exact integer (priority * 24000).  Hours are whole       *)
(* hours.  A log_date string is held as the two things the code observes   *)
(* of it: its rank in the lexicographic order of strings (for a            *)
(* "YYYY-MM-DD" string, the day number) and whether strptime parses it.    *)
(***************************************************************************)
EXTENDS Integers, Sequences, FiniteSets, TLC

VARIABLES stations, employees, assignments, available_employees,
          absent_employees, assignment_logs, scenario,
          schedule_generated, last

vars == <<stations, employees, assignments, available_employees,
          absent_employees, assignment_logs, scenario,
          schedule_generated, last>>

(***************************************************************************)
(* Bounds of the model                                                     *)
(***************************************************************************)
MaxSkill == 2
MaxCert == 1
MaxHeadcount == 2
MaxLogLen == 1
MaxHistory == 2
MaxFinalLog == 3

StationIdSeq == <<"s1", "s2">>
EmployeeIds == {"e1", "e2"}
UnknownStation == "s_unknown"
UnknownEmployee == "e_unknown"
LogHours == {8}
LogEmployees == {"e1"}
LogStations == {"s1"}

(***************************************************************************)
(* Program constants                                                       *)
(***************************************************************************)
WindowDays == 30
RecencyCapDays == 30
FatigueCapHours == 240
NeverDays == 999
SkillCeiling == 6

Today == WindowDays + 2

\* the string "YYYY-MM-DD" of day number n (strftime)
IsoDate(n) == [rank |-> n, parses |-> TRUE]

\* a string that strptime rejects, at lexicographic rank n
Unparseable(n) == [rank |-> n, parses |-> FALSE]

\* str < str
StrLess(a, b) == a.rank < b.rank

LogDates == {IsoDate(Today - 1)}

Range(s) == {s[i] : i \in 1..Len(s)}

Min(a, b) == IF a <= b THEN a ELSE b

Max(a, b) == IF a >= b THEN a ELSE b

\* mutant: the fill loop without its headcount check
PrefixAll(s, n) == s

Prefix(s, n) == SubSeq(s, 1, Min(Max(n, 0), Len(s)))

Perms(S) == {f \in [1..Cardinality(S) -> S] :
               \A i, j \in 1..Cardinality(S) : i # j => f[i] # f[j]}

\* list.remove(x): drops the first occurrence of x
RECURSIVE ListRemove(_, _)
ListRemove(s, x) ==
  IF s = <<>> THEN <<>>
  ELSE IF Head(s) = x THEN Tail(s)
  ELSE <<Head(s)>> \o ListRemove(Tail(s), x)

(***************************************************************************)
(* models.py                                                               *)
(***************************************************************************)
\* Assignment(station_id=...), with the dataclass defaults
NewAssignment(sid) ==
  [station_id |-> sid, assigned_employee_ids |-> <<>>,
   is_fully_staffed |-> FALSE, unfilled_slots |-> 0]

get_competency(emp, sid) ==
  IF sid \in DOMAIN emp.station_competencies
  THEN emp.station_competencies[sid] ELSE 0

SCENARIOS ==
  [n \in {"Balanced", "Max Competency", "Cross-Training", "Fatigue Aware",
          "Fresh Rotation"} |->
     CASE n = "Balanced" ->
            [skill_weight |-> 40, recency_weight |-> 35,
             fatigue_weight |-> 25, invert_skill |-> FALSE]
       [] n = "Max Competency" ->
            [skill_weight |-> 75, recency_weight |-> 10,
             fatigue_weight |-> 15, invert_skill |-> FALSE]
       [] n = "Cross-Training" ->
            [skill_weight |-> 10, recency_weight |-> 55,
             fatigue_weight |-> 35, invert_skill |-> TRUE]
       [] n = "Fatigue Aware" ->
            [skill_weight |-> 30, recency_weight |-> 25,
             fatigue_weight |-> 45, invert_skill |-> FALSE]
       [] n = "Fresh Rotation" ->
            [skill_weight |-> 20, recency_weight |-> 60,
             fatigue_weight |-> 20, invert_skill |-> FALSE]]

(***************************************************************************)
(* Dict helpers for the ordered dicts                                      *)
(***************************************************************************)
StationIds(sts) == {sts[i].id : i \in 1..Len(sts)}

StationOf(sts, sid) == sts[CHOOSE i \in 1..Len(sts) : sts[i].id = sid]

AssignedStationIds(asgs) == {asgs[i].station_id : i \in 1..Len(asgs)}

AssignmentOf(asgs, sid) ==
  asgs[CHOOSE i \in 1..Len(asgs) : asgs[i].station_id = sid]

\* self.assignments[sid] = a
DictSet(asgs, a) ==
  IF a.station_id \in AssignedStationIds(asgs)
  THEN [i \in 1..Len(asgs) |->
          IF asgs[i].station_id = a.station_id THEN a ELSE asgs[i]]
  ELSE Append(asgs, a)

AssignedAnywhere(asgs) ==
  UNION {Range(asgs[i].assigned_employee_ids) : i \in 1..Len(asgs)}

(***************************************************************************)
(* scheduler.py: qualification gate, rotation statistics, ranking          *)
(***************************************************************************)
MeetsGate(emp, st) ==
  /\ emp.certification_level >= st.required_certification
  /\ get_competency(emp, st.id) >= st.required_skill_level

is_qualified(emps, sts, eid, sid) ==
  IF eid \notin DOMAIN emps \/ sid \notin StationIds(sts) THEN FALSE
  ELSE MeetsGate(emps[eid], StationOf(sts, sid))

NewRotationStats ==
  [total_hours |-> 0, days_since_last |-> NeverDays, assignment_count |-> 0]

\* mutant: entries dated on the cutoff are discarded as well
RECURSIVE BuildFromExclusive(_, _)
BuildFromExclusive(logs, stats) ==
  IF logs = <<>> THEN stats
  ELSE LET log == Head(logs)
           key == <<log.employee_id, log.station_id>>
           s0 == IF key \in DOMAIN stats THEN stats[key] ELSE NewRotationStats
           s1 == [total_hours |-> s0.total_hours + log.hours,
                  assignment_count |-> s0.assignment_count + 1,
                  days_since_last |->
                    IF log.log_date.parses
                    THEN Min(s0.days_since_last, Today - log.log_date.rank)
                    ELSE s0.days_since_last]
       IN IF log.log_date.rank <= Today - WindowDays
          THEN BuildFromExclusive(Tail(logs), stats)
          ELSE BuildFromExclusive(Tail(logs),
                 [k \in DOMAIN stats \cup {key} |->
                    IF k = key THEN s1 ELSE stats[k]])

RECURSIVE BuildFrom(_, _)
BuildFrom(logs, stats) ==
  IF logs = <<>> THEN stats
  ELSE LET log == Head(logs)
           key == <<log.employee_id, log.station_id>>
           s0 == IF key \in DOMAIN stats THEN stats[key] ELSE NewRotationStats
           cutoff_str == IsoDate(Today - WindowDays)
           s1 == [total_hours |-> s0.total_hours + log.hours,
                  assignment_count |-> s0.assignment_count + 1,
                  days_since_last |->
                    IF log.log_date.parses
                    THEN Min(s0.days_since_last, Today - log.log_date.rank)
                    ELSE s0.days_since_last]
       IN IF StrLess(log.log_date, cutoff_str)
          THEN BuildFrom(Tail(logs), stats)
          ELSE BuildFrom(Tail(logs),
                 [k \in DOMAIN stats \cup {key} |->
                    IF k = key THEN s1 ELSE stats[k]])

_build_rotation_stats(logs) == BuildFrom(logs, <<>>)

\* rotation_stats argument: None, or a dict
NoStats == [is_none |-> TRUE, stats |-> <<>>]

SomeStats(m) == [is_none |-> FALSE, stats |-> m]

\* the local variable rotation_stats of generate_schedule (line 69)
StatsOf(logs) ==
  IF logs # <<>> THEN SomeStats(_build_rotation_stats(logs)) ELSE NoStats

\* mutant: the priority is the skill term alone
PrioritySkillOnly(emp, st, rs, w) ==
  w.skill_weight * 40 * (get_competency(emp, st.id) + emp.certification_level)

\* mutant: invert_skill is ignored
PriorityNoInvert(emp, st, rs, w) ==
  LET key == <<emp.id, st.id>>
      has == key \in DOMAIN rs.stats
  IN w.skill_weight * 40 * (get_competency(emp, st.id) + emp.certification_level)
       + w.recency_weight *
           (IF has THEN 8 * Min(rs.stats[key].days_since_last, RecencyCapDays)
            ELSE 8 * RecencyCapDays)
       - w.fatigue_weight *
           (IF has THEN Min(rs.stats[key].total_hours, FatigueCapHours) ELSE 0)

\* priority * 24000
Priority(emp, st, rs, w) ==
  LET raw == 40 * (get_competency(emp, st.id) + emp.certification_level)
      skill_score == IF w.invert_skill THEN 40 * SkillCeiling - raw ELSE raw
      key == <<emp.id, st.id>>
      has == key \in DOMAIN rs.stats
      recency_score ==
        IF has THEN 8 * Min(rs.stats[key].days_since_last, RecencyCapDays)
        ELSE 8 * RecencyCapDays
      fatigue_score ==
        IF has THEN Min(rs.stats[key].total_hours, FatigueCapHours) ELSE 0
  IN w.skill_weight * skill_score + w.recency_weight * recency_score
       - w.fatigue_weight * fatigue_score

\* mutant: the scorer is used also without statistics
RankGEScored(emps, st, rs, w, a, b) ==
  Priority(emps[a], st, rs, w) >= Priority(emps[b], st, rs, w)

\* sort key comparison "a is not ranked strictly below b"
RankGE(emps, st, rs, w, a, b) ==
  IF rs.is_none
  THEN \/ emps[a].certification_level > emps[b].certification_level
       \/ /\ emps[a].certification_level = emps[b].certification_level
          /\ get_competency(emps[a], st.id) >= get_competency(emps[b], st.id)
  ELSE Priority(emps[a], st, rs, w) >= Priority(emps[b], st, rs, w)

\* mutant: the gate without the certification check
QualifiedSetNoCert(emps, avail, st) ==
  {e \in avail : get_competency(emps[e], st.id) >= st.required_skill_level}

QualifiedSet(emps, avail, st) == {e \in avail : MeetsGate(emps[e], st)}

\* mutant: the list is returned in the iteration order of the set
QualifiedUnsorted(emps, avail, st, rs, w) ==
  Perms(QualifiedSet(emps, avail, st))

\* The lists _get_qualified_employees can return: the qualified available
\* employees in any iteration order of the set, stably sorted descending.
_get_qualified_employees(emps, avail, st, rs, w) ==
  {q \in Perms(QualifiedSet(emps, avail, st)) :
     \A i, j \in 1..Len(q) : i < j => RankGE(emps, st, rs, w, q[i], q[j])}

\* sorted(stations.values(), key=required_skill_level, reverse=True): stable
RECURSIVE InsertDesc(_, _)
InsertDesc(sorted, x) ==
  IF sorted = <<>> THEN <<x>>
  ELSE IF Head(sorted).required_skill_level >= x.required_skill_level
       THEN <<Head(sorted)>> \o InsertDesc(Tail(sorted), x)
       ELSE <<x>> \o sorted

\* mutant: the stations in insertion order, unsorted
SortStationsNone(sts) == sts

RECURSIVE SortStations(_)
SortStations(sts) ==
  IF sts = <<>> THEN <<>>
  ELSE InsertDesc(SortStations(SubSeq(sts, 1, Len(sts) - 1)), sts[Len(sts)])

(***************************************************************************)
(* scheduler.py: generate_schedule                                         *)
(***************************************************************************)
RECURSIVE GenLoop(_, _, _, _, _, _)
GenLoop(sorted, asgs, avail, emps, rs, w) ==
  IF sorted = <<>> THEN {[assignments |-> asgs, available |-> avail]}
  ELSE LET st == Head(sorted)
       IN UNION {
            LET taken == Prefix(q, st.required_headcount)
                unfilled == st.required_headcount - Len(taken)
                a == [station_id |-> st.id,
                      assigned_employee_ids |-> taken,
                      is_fully_staffed |-> (unfilled = 0),
                      unfilled_slots |-> unfilled]
            IN GenLoop(Tail(sorted), DictSet(asgs, a), avail \ Range(taken),
                       emps, rs, w)
            : q \in _get_qualified_employees(emps, avail, st, rs, w)}

\* mutant: the fill starts from all workers, the absent ones included
generate_schedule_outcomes_all(sts, emps, absent, logs, w) ==
  GenLoop(SortStations(sts), <<>>, DOMAIN emps, emps, StatsOf(logs), w)

generate_schedule_outcomes(sts, emps, absent, logs, w) ==
  GenLoop(SortStations(sts), <<>>, DOMAIN emps \ absent, emps,
          StatsOf(logs), w)

(***************************************************************************)
(* scheduler.py: rebalance_schedule                                        *)
(***************************************************************************)
\* mutant: the fill loop is never entered
RebLoopNone(a, avail, emps, st, w) ==
  {[assignment |-> a, available |-> avail]}

\* mutant: the fill loop does not look at unfilled_slots
RECURSIVE RebLoopOverfill(_, _, _, _, _)
RebLoopOverfill(a, avail, emps, st, w) ==
  LET Q == _get_qualified_employees(emps, avail, st, NoStats, w)
  IN IF Q = {<<>>} THEN {[assignment |-> a, available |-> avail]}
     ELSE UNION {
            RebLoopOverfill([a EXCEPT
                               !.assigned_employee_ids = Append(@, q[1]),
                               !.unfilled_slots = @ - 1],
                            avail \ {q[1]}, emps, st, w)
            : q \in Q}

RECURSIVE RebLoop(_, _, _, _, _)
RebLoop(a, avail, emps, st, w) ==
  IF a.unfilled_slots > 0
  THEN LET Q == _get_qualified_employees(emps, avail, st, NoStats, w)
       IN IF Q = {<<>>} THEN {[assignment |-> a, available |-> avail]}
          ELSE UNION {
                 RebLoop([a EXCEPT
                            !.assigned_employee_ids = Append(@, q[1]),
                            !.unfilled_slots = @ - 1],
                         avail \ {q[1]}, emps, st, w)
                 : q \in Q}
  ELSE {[assignment |-> a, available |-> avail]}

\* outcomes of rebalance_schedule(sid) for a known station
rebalance_outcomes(sts, emps, asgs, avail, sid, w) ==
  LET st == StationOf(sts, sid)
      a0 == IF sid \in AssignedStationIds(asgs) THEN AssignmentOf(asgs, sid)
            ELSE NewAssignment(sid)
  IN {LET a == [r.assignment EXCEPT
                  !.is_fully_staffed = (r.assignment.unfilled_slots = 0)]
      IN [assignments |-> DictSet(asgs, a), available |-> r.available,
          ret |-> a.is_fully_staffed]
      : r \in RebLoop(a0, avail, emps, st, w)}

(***************************************************************************)
(* scheduler.py: handle_absence                                            *)
(***************************************************************************)
\* mutant: the employee is left in the assigned lists
RemoveFromAllNone(asgs, eid) == asgs

\* lines 119-127: remove the employee from every assignment that holds it
RemoveFromAll(asgs, eid) ==
  [i \in 1..Len(asgs) |->
     IF eid \in Range(asgs[i].assigned_employee_ids)
     THEN [asgs[i] EXCEPT
             !.assigned_employee_ids = ListRemove(@, eid),
             !.unfilled_slots = @ + 1,
             !.is_fully_staffed = FALSE]
     ELSE asgs[i]]

\* mutant: every station that has an Assignment counts as affected
AffectedStationsAll(asgs, eid) ==
  [i \in 1..Len(asgs) |-> asgs[i].station_id]

AffectedStations(asgs, eid) ==
  LET F[i \in 0..Len(asgs)] ==
        IF i = 0 THEN <<>>
        ELSE IF eid \in Range(asgs[i].assigned_employee_ids)
             THEN Append(F[i - 1], asgs[i].station_id)
             ELSE F[i - 1]
  IN F[Len(asgs)]

\* lines 129-131: rebalance each affected station in turn
\* mutant: the affected stations are not rebalanced
RebalanceEachSkip(sts, emps, asgs, avail, affected, w) ==
  {[assignments |-> asgs, available |-> avail]}

RECURSIVE RebalanceEach(_, _, _, _, _, _)
RebalanceEach(sts, emps, asgs, avail, affected, w) ==
  IF affected = <<>> THEN {[assignments |-> asgs, available |-> avail]}
  ELSE UNION {RebalanceEach(sts, emps, r.assignments, r.available,
                            Tail(affected), w)
              : r \in rebalance_outcomes(sts, emps, asgs, avail,
                                         Head(affected), w)}

\* mutant: the absent employee stays in the available set
handle_absence_outcomes_keep(sts, emps, asgs, avail, eid, w) ==
  RebalanceEach(sts, emps, RemoveFromAll(asgs, eid), avail,
                AffectedStations(asgs, eid), w)

handle_absence_outcomes(sts, emps, asgs, avail, eid, w) ==
  RebalanceEach(sts, emps, RemoveFromAll(asgs, eid), avail \ {eid},
                AffectedStations(asgs, eid), w)

(***************************************************************************)
(* scheduler.py: get_unfilled_stations                                     *)
(***************************************************************************)
\* mutant: every station that has an Assignment is reported
get_unfilled_stations_all(asgs) == [i \in 1..Len(asgs) |-> asgs[i].station_id]

NotFullyStaffed(a) == ~a.is_fully_staffed

get_unfilled_stations(asgs) ==
  LET unfilled == SelectSeq(asgs, NotFullyStaffed)
  IN [i \in 1..Len(unfilled) |-> unfilled[i].station_id]

(***************************************************************************)
(* scheduler.py: get_schedule_summary                                      *)
(***************************************************************************)
\* line 302: self.stations[station_id] raises KeyError for an Assignment
\* whose station is not in the station map
get_schedule_summary_raises(sts, asgs) ==
  \E i \in 1..Len(asgs) : asgs[i].station_id \notin StationIds(sts)

get_schedule_summary(sts, asgs) ==
  [i \in 1..Len(asgs) |->
     LET station == StationOf(sts, asgs[i].station_id)
     IN [station_id |-> asgs[i].station_id,
         station_name |-> station.name,
         assigned |-> asgs[i].assigned_employee_ids,
         required |-> station.required_headcount,
         filled |-> Len(asgs[i].assigned_employee_ids),
         status |-> IF asgs[i].is_fully_staffed THEN "fully_staffed"
                    ELSE "unfilled"]]

(***************************************************************************)
(* The state machine                                                       *)
(***************************************************************************)
\* the last operation: its name and argument, whether it raised, its return
\* value, the rotation_stats it built, and in `detail` its further input
\* (the selections of an override, the entries of a finalization)
Op(name, arg) ==
  [op |-> name, arg |-> arg, raised |-> FALSE, ret_staffed |-> FALSE,
   ret_affected |-> <<>>, rotation_stats |-> NoStats, detail |-> <<>>]

Station(sid, skill, headcount, cert) ==
  [id |-> sid, name |-> sid, required_skill_level |-> skill,
   required_headcount |-> headcount, required_certification |-> cert]

\* The station lists the scheduler is constructed with: the critical
\* station last in insertion order (the sort moves it to the front), and
\* two stations of equal skill (the sort keeps their order).
StationLayouts ==
  {<<Station("s1", 1, 1, 0), Station("s2", MaxSkill, MaxHeadcount, MaxCert)>>,
   <<Station("s1", 1, MaxHeadcount, 0), Station("s2", 1, 1, MaxCert)>>}

CompetencyMaps ==
  UNION {[D -> 1..MaxSkill] : D \in SUBSET Range(StationIdSeq)}

Employee(eid, cert, comps) ==
  [id |-> eid, name |-> eid, certification_level |-> cert,
   station_competencies |-> comps]

\* the first employee: every certification level and competency map
EmployeeChoices(eid) ==
  {Employee(eid, c, m) : c \in 0..MaxCert, m \in CompetencyMaps}

\* the second employee: qualified everywhere; a generalist without
\* certificate; skilled but without certificate; rated at one station only
ColleagueChoices(eid) ==
  {Employee(eid, MaxCert, [s \in Range(StationIdSeq) |-> MaxSkill]),
   Employee(eid, 0, [s \in Range(StationIdSeq) |-> 1]),
   Employee(eid, 0, [s \in Range(StationIdSeq) |-> MaxSkill]),
   Employee(eid, MaxCert, [s \in {StationIdSeq[1]} |-> MaxSkill])}

LogEntries ==
  [log_date : LogDates, employee_id : LogEmployees,
   station_id : LogStations, hours : LogHours]

LogChoices ==
  UNION {[1..n -> LogEntries] : n \in 0..MaxLogLen}

\* MatrixScheduler.__init__ (scheduler.py 34-48), then the session's log
\* load (app.py 285-289, 323-327) and session flag (app.py 348-349)
Init ==
  /\ stations \in StationLayouts
  /\ employees \in {[x \in EmployeeIds |-> IF x = "e1" THEN a ELSE b] :
                      a \in EmployeeChoices("e1"), b \in ColleagueChoices("e2")}
  /\ assignments = <<>>
  /\ available_employees = EmployeeIds
  /\ absent_employees = {}
  /\ assignment_logs \in LogChoices
  /\ scenario = "Balanced"
  /\ schedule_generated = FALSE
  /\ last = Op("init", "")

ScenarioArgs == {"None", "Cross-Training"}

ScenarioNames == {"Balanced", "Cross-Training"}

\* generate_schedule(scenario), scheduler.py 50-100
GenerateSchedule(arg) ==
  LET sc == IF arg # "None" THEN arg ELSE scenario
  IN \E r \in generate_schedule_outcomes(stations, employees,
                absent_employees, assignment_logs, SCENARIOS[sc]) :
       /\ scenario' = sc
       /\ assignments' = r.assignments
       /\ available_employees' = r.available
       /\ last' = [Op("generate_schedule", arg) EXCEPT
                     !.rotation_stats = StatsOf(assignment_logs)]
       /\ UNCHANGED <<stations, employees, absent_employees, assignment_logs,
                      schedule_generated>>

\* the "Generate Schedule" button, app.py 1175-1196
GenerateButton(name) ==
  /\ stations # <<>> /\ DOMAIN employees # {}
  /\ \E r \in generate_schedule_outcomes(stations, employees,
                absent_employees, assignment_logs, SCENARIOS[name]) :
       /\ scenario' = name
       /\ assignments' = r.assignments
       /\ available_employees' = r.available
       /\ schedule_generated' = TRUE
       /\ last' = [Op("generate_schedule", name) EXCEPT
                     !.rotation_stats = StatsOf(assignment_logs)]
       /\ UNCHANGED <<stations, employees, absent_employees, assignment_logs>>

\* mutant: the employee is marked absent before the id is checked
HandleAbsenceLateCheck(eid) ==
  IF eid \notin DOMAIN employees
  THEN /\ absent_employees' = absent_employees \cup {eid}
       /\ last' = [Op("handle_absence", eid) EXCEPT !.raised = TRUE]
       /\ UNCHANGED <<stations, employees, assignments, available_employees,
                      assignment_logs, scenario, schedule_generated>>
  ELSE \E r \in handle_absence_outcomes(stations, employees, assignments,
                  available_employees, eid, SCENARIOS[scenario]) :
         /\ absent_employees' = absent_employees \cup {eid}
         /\ assignments' = r.assignments
         /\ available_employees' = r.available
         /\ last' = [Op("handle_absence", eid) EXCEPT
                       !.ret_affected = AffectedStations(assignments, eid)]
         /\ UNCHANGED <<stations, employees, assignment_logs, scenario,
                        schedule_generated>>

\* mutant: an employee who is already absent is refused
HandleAbsenceOnce(eid) ==
  IF eid \notin DOMAIN employees \/ eid \in absent_employees
  THEN /\ last' = [Op("handle_absence", eid) EXCEPT !.raised = TRUE]
       /\ UNCHANGED <<stations, employees, assignments, available_employees,
                      absent_employees, assignment_logs, scenario,
                      schedule_generated>>
  ELSE \E r \in handle_absence_outcomes(stations, employees, assignments,
                  available_employees, eid, SCENARIOS[scenario]) :
         /\ absent_employees' = absent_employees \cup {eid}
         /\ assignments' = r.assignments
         /\ available_employees' = r.available
         /\ last' = [Op("handle_absence", eid) EXCEPT
                       !.ret_affected = AffectedStations(assignments, eid)]
         /\ UNCHANGED <<stations, employees, assignment_logs, scenario,
                        schedule_generated>>

\* handle_absence(employee_id), scheduler.py 102-133
HandleAbsence(eid) ==
  IF eid \notin DOMAIN employees
  THEN /\ last' = [Op("handle_absence", eid) EXCEPT !.raised = TRUE]
       /\ UNCHANGED <<stations, employees, assignments, available_employees,
                      absent_employees, assignment_logs, scenario,
                      schedule_generated>>
  ELSE \E r \in handle_absence_outcomes(stations, employees, assignments,
                  available_employees, eid, SCENARIOS[scenario]) :
         /\ absent_employees' = absent_employees \cup {eid}
         /\ assignments' = r.assignments
         /\ available_employees' = r.available
         /\ last' = [Op("handle_absence", eid) EXCEPT
                       !.ret_affected = AffectedStations(assignments, eid)]
         /\ UNCHANGED <<stations, employees, assignment_logs, scenario,
                        schedule_generated>>

\* mutant: the empty Assignment is created before the id is checked
RebalanceScheduleLateCheck(sid) ==
  IF sid \notin StationIds(stations)
  THEN /\ assignments' = DictSet(assignments, NewAssignment(sid))
       /\ last' = [Op("rebalance_schedule", sid) EXCEPT !.raised = TRUE]
       /\ UNCHANGED <<stations, employees, available_employees,
                      absent_employees, assignment_logs, scenario,
                      schedule_generated>>
  ELSE \E r \in rebalance_outcomes(stations, employees, assignments,
                  available_employees, sid, SCENARIOS[scenario]) :
         /\ assignments' = r.assignments
         /\ available_employees' = r.available
         /\ last' = [Op("rebalance_schedule", sid) EXCEPT
                       !.ret_staffed = r.ret]
         /\ UNCHANGED <<stations, employees, absent_employees,
                        assignment_logs, scenario, schedule_generated>>

\* rebalance_schedule(station_id), scheduler.py 135-171
RebalanceSchedule(sid) ==
  IF sid \notin StationIds(stations)
  THEN /\ last' = [Op("rebalance_schedule", sid) EXCEPT !.raised = TRUE]
       /\ UNCHANGED <<stations, employees, assignments, available_employees,
                      absent_employees, assignment_logs, scenario,
                      schedule_generated>>
  ELSE \E r \in rebalance_outcomes(stations, employees, assignments,
                  available_employees, sid, SCENARIOS[scenario]) :
         /\ assignments' = r.assignments
         /\ available_employees' = r.available
         /\ last' = [Op("rebalance_schedule", sid) EXCEPT
                       !.ret_staffed = r.ret]
         /\ UNCHANGED <<stations, employees, absent_employees,
                        assignment_logs, scenario, schedule_generated>>

\* presence toggle unchecked, app.py 976-994
MarkAbsent(eid) ==
  /\ stations # <<>> /\ eid \in DOMAIN employees
  /\ eid \notin absent_employees
  /\ absent_employees' = absent_employees \cup {eid}
  /\ available_employees' = available_employees \ {eid}
  /\ assignments' = RemoveFromAll(assignments, eid)
  /\ schedule_generated' = FALSE
  /\ last' = Op("mark_absent", eid)
  /\ UNCHANGED <<stations, employees, assignment_logs, scenario>>

\* mutant: the worker is made available but stays in the absent set
MarkPresentStillAbsent(eid) ==
  /\ stations # <<>> /\ eid \in DOMAIN employees
  /\ eid \in absent_employees
  /\ available_employees' = available_employees \cup {eid}
  /\ schedule_generated' = FALSE
  /\ last' = Op("mark_present", eid)
  /\ UNCHANGED <<stations, employees, assignments, absent_employees,
                 assignment_logs, scenario>>

\* presence toggle checked, app.py 995-1003
MarkPresent(eid) ==
  /\ stations # <<>> /\ eid \in DOMAIN employees
  /\ eid \in absent_employees
  /\ absent_employees' = absent_employees \ {eid}
  /\ available_employees' = available_employees \cup {eid}
  /\ schedule_generated' = FALSE
  /\ last' = Op("mark_present", eid)
  /\ UNCHANGED <<stations, employees, assignments, assignment_logs, scenario>>

(***************************************************************************)
(* app.py: manual override (schedule_section, 1251-1364)                   *)
(***************************************************************************)
Unassigned == "__unassigned__"

\* app.py 1279-1298: the options of the select box of slot k of a station
SlotOptions(sts, emps, asgs, absent, sid, k) ==
  LET ids == AssignmentOf(asgs, sid).assigned_employee_ids
      current_emp_id == IF k < Len(ids) THEN ids[k + 1] ELSE Unassigned
      present_ids == DOMAIN emps \ absent
      all_assigned == AssignedAnywhere(asgs)
  IN {Unassigned} \cup
     {e \in present_ids :
        /\ is_qualified(emps, sts, e, sid)
        /\ (e = current_emp_id \/ e \notin all_assigned)}

\* all sequences that take their k-th element from the k-th set
RECURSIVE Product(_)
Product(sets) ==
  IF sets = <<>> THEN {<<>>}
  ELSE {<<x>> \o rest : x \in Head(sets), rest \in Product(Tail(sets))}

\* app.py 1267-1315: override_selections, as one sequence of selected ids
\* (slot order) per Assignment (dict order)
OverrideSelections(sts, emps, asgs, absent) ==
  Product([i \in 1..Len(asgs) |->
             Product([k \in 1..StationOf(sts, asgs[i].station_id).required_headcount |->
                        SlotOptions(sts, emps, asgs, absent,
                                    asgs[i].station_id, k - 1)])])

\* mutant: the conflict check compares slots of different stations only
HasConflictAcrossStations(sel) ==
  \E i, j \in 1..Len(sel) : \E k \in 1..Len(sel[i]), l \in 1..Len(sel[j]) :
    /\ i # j
    /\ sel[i][k] # Unassigned
    /\ sel[i][k] = sel[j][l]

\* mutant: no selection is a conflict
HasConflictNever(sel) == FALSE

\* app.py 1320-1327
HasConflict(sel) ==
  \E i, j \in 1..Len(sel) : \E k \in 1..Len(sel[i]), l \in 1..Len(sel[j]) :
    /\ <<i, k>> # <<j, l>>
    /\ sel[i][k] # Unassigned
    /\ sel[i][k] = sel[j][l]

IsSelected(x) == x # Unassigned

\* mutant: the slot counters are left as they were
ApplySelectionsListsOnly(sts, asgs, sel) ==
  [i \in 1..Len(asgs) |->
     [asgs[i] EXCEPT !.assigned_employee_ids = SelectSeq(sel[i], IsSelected)]]

\* app.py 1336-1350
ApplySelections(sts, asgs, sel) ==
  [i \in 1..Len(asgs) |->
     LET st == StationOf(sts, asgs[i].station_id)
         new_emp_ids == SelectSeq(sel[i], IsSelected)
         unfilled == st.required_headcount - Len(new_emp_ids)
     IN [asgs[i] EXCEPT
           !.assigned_employee_ids = new_emp_ids,
           !.unfilled_slots = unfilled,
           !.is_fully_staffed = (unfilled = 0)]]

\* "Apply Changes" button, app.py 1318-1360.  The panel is opened by the
\* "Edit Assignments" button (1361-1364), which changes no scheduler state
\* and is offered whenever the schedule is shown.
ApplyOverride ==
  /\ stations # <<>> /\ DOMAIN employees # {}
  /\ schedule_generated
  /\ AssignedStationIds(assignments) \subseteq StationIds(stations)
  /\ \E sel \in OverrideSelections(stations, employees, assignments,
                                   absent_employees) :
       IF HasConflict(sel)
       THEN /\ last' = [Op("apply_override", "") EXCEPT
                          !.raised = TRUE, !.detail = sel]
            /\ UNCHANGED <<stations, employees, assignments,
                           available_employees, absent_employees,
                           assignment_logs, scenario, schedule_generated>>
       ELSE LET new == ApplySelections(stations, assignments, sel)
            IN /\ assignments' = new
               /\ available_employees' =
                    (DOMAIN employees \ absent_employees) \
                    AssignedAnywhere(new)
               /\ last' = [Op("apply_override", "") EXCEPT !.detail = sel]
               /\ UNCHANGED <<stations, employees, absent_employees,
                              assignment_logs, scenario, schedule_generated>>

Next ==
  \/ \E arg \in ScenarioArgs : GenerateSchedule(arg)
  \/ \E name \in ScenarioNames : GenerateButton(name)
  \/ \E eid \in EmployeeIds \cup {UnknownEmployee} : HandleAbsence(eid)
  \/ \E sid \in Range(StationIdSeq) \cup {UnknownStation} :
       RebalanceSchedule(sid)
  \/ \E eid \in EmployeeIds : MarkAbsent(eid)
  \/ \E eid \in EmployeeIds : MarkPresent(eid)
  \/ ApplyOverride

Spec == Init /\ [][Next]_vars

\* the engine's own operations only
NextEngine ==
  \/ \E arg \in ScenarioArgs : GenerateSchedule(arg)
  \/ \E eid \in EmployeeIds \cup {UnknownEmployee} : HandleAbsence(eid)
  \/ \E sid \in Range(StationIdSeq) \cup {UnknownStation} :
       RebalanceSchedule(sid)

SpecEngine == Init /\ [][NextEngine]_vars

\* the engine's operations and the presence toggle
NextPresence ==
  \/ \E arg \in ScenarioArgs : GenerateSchedule(arg)
  \/ \E eid \in EmployeeIds \cup {UnknownEmployee} : HandleAbsence(eid)
  \/ \E sid \in Range(StationIdSeq) \cup {UnknownStation} :
       RebalanceSchedule(sid)
  \/ \E eid \in EmployeeIds : MarkAbsent(eid)
  \/ \E eid \in EmployeeIds : MarkPresent(eid)

SpecPresence == Init /\ [][NextPresence]_vars

(***************************************************************************)
(* app.py: adding and removing employees (sidebar)                         *)
(***************************************************************************)
\* the add form (app.py 753-775): a certification level and one rating per
\* station
NewEmployeeChoices(sts, eid) ==
  {Employee(eid, MaxCert, [s \in StationIds(sts) |-> MaxSkill]),
   Employee(eid, 0, [s \in StationIds(sts) |-> 1]),
   Employee(eid, MaxCert, [s \in StationIds(sts) |->
                             IF s = sts[1].id THEN MaxSkill ELSE 0])}

\* "Save Employee", app.py 780-803.  generate_id returns an id that no
\* employee has.
AddEmployee(new_id) ==
  /\ stations # <<>>
  /\ new_id \notin DOMAIN employees
  /\ \E new_employee \in NewEmployeeChoices(stations, new_id) :
       employees' = [x \in DOMAIN employees \cup {new_id} |->
                       IF x = new_id THEN new_employee ELSE employees[x]]
  /\ available_employees' = available_employees \cup {new_id}
  /\ schedule_generated' = FALSE
  /\ last' = Op("add_employee", new_id)
  /\ UNCHANGED <<stations, assignments, absent_employees, assignment_logs,
                 scenario>>

\* mutant: the id stays in the assigned lists
DropFromListsNone(asgs, eid) == asgs

\* app.py 508-510: the id is taken out of the assigned lists; the slot
\* counters are not touched
DropFromLists(asgs, eid) ==
  [i \in 1..Len(asgs) |->
     [asgs[i] EXCEPT !.assigned_employee_ids = ListRemove(@, eid)]]

\* "Remove", app.py 501-514
RemoveEmployee(eid) ==
  /\ eid \in DOMAIN employees
  /\ employees' = [x \in DOMAIN employees \ {eid} |-> employees[x]]
  /\ available_employees' = available_employees \ {eid}
  /\ absent_employees' = absent_employees \ {eid}
  /\ assignments' = DropFromLists(assignments, eid)
  /\ schedule_generated' = FALSE
  /\ last' = Op("remove_employee", eid)
  /\ UNCHANGED <<stations, assignment_logs, scenario>>

\* app.py 633-635: the station's rating is deleted from every employee
ForgetStation(emps, sid) ==
  [e \in DOMAIN emps |->
     [emps[e] EXCEPT
        !.station_competencies = [x \in DOMAIN @ \ {sid} |-> @[x]]]]

\* mutant: the employees keep their rating for the removed station
RemoveStationKeepRatings(sid) ==
  /\ sid \in StationIds(stations)
  /\ stations' = SelectSeq(stations, LAMBDA st : st.id # sid)
  /\ assignments' = SelectSeq(assignments, LAMBDA a : a.station_id # sid)
  /\ schedule_generated' = FALSE
  /\ last' = Op("remove_station", sid)
  /\ UNCHANGED <<employees, available_employees, absent_employees,
                 assignment_logs, scenario>>

\* "Remove" of the station form, app.py 629-642.  The workers assigned to
\* the station are not put back into the available set.
RemoveStation(sid) ==
  /\ sid \in StationIds(stations)
  /\ employees' = ForgetStation(employees, sid)
  /\ stations' = SelectSeq(stations, LAMBDA st : st.id # sid)
  /\ assignments' = SelectSeq(assignments, LAMBDA a : a.station_id # sid)
  /\ schedule_generated' = FALSE
  /\ last' = Op("remove_station", sid)
  /\ UNCHANGED <<available_employees, absent_employees, assignment_logs,
                 scenario>>

\* the session start with stored employees (app.py 271-295): the scheduler
\* is constructed, then the employees flagged is_absent are moved to the
\* absent set
InitRoster ==
  /\ stations \in StationLayouts
  /\ \E D \in SUBSET {"e1"} :
       /\ employees \in {[x \in D |-> a] : a \in ColleagueChoices("e1")}
       /\ absent_employees \in SUBSET D
       /\ available_employees = D \ absent_employees
  /\ assignments = <<>>
  /\ assignment_logs = <<>>
  /\ scenario = "Balanced"
  /\ schedule_generated = FALSE
  /\ last = Op("init", "")

NextRoster ==
  \/ \E arg \in ScenarioArgs : GenerateSchedule(arg)
  \/ \E name \in ScenarioNames : GenerateButton(name)
  \/ \E eid \in EmployeeIds \cup {UnknownEmployee} : HandleAbsence(eid)
  \/ \E sid \in Range(StationIdSeq) \cup {UnknownStation} :
       RebalanceSchedule(sid)
  \/ \E eid \in EmployeeIds : MarkAbsent(eid)
  \/ \E eid \in EmployeeIds : MarkPresent(eid)
  \/ ApplyOverride
  \/ \E eid \in EmployeeIds : AddEmployee(eid)
  \/ \E eid \in EmployeeIds : RemoveEmployee(eid)
  \/ \E sid \in Range(StationIdSeq) : RemoveStation(sid)

SpecRoster == InitRoster /\ [][NextRoster]_vars

(***************************************************************************)
(* scheduler.py: to_json / from_json.  A JSON object is a function on its  *)
(* keys, a JSON array a sequence; json.dumps followed by json.loads        *)
(* returns strings, integers, booleans, arrays and string-keyed objects    *)
(* as they were.                                                           *)
(***************************************************************************)
\* data[k]
HasKey(data, k) == k \in DOMAIN data

\* data.get(k, default)
Get(data, k, default) == IF k \in DOMAIN data THEN data[k] ELSE default

\* a JSON object without one of its keys
Without(data, k) == [x \in DOMAIN data \ {k} |-> data[x]]

Station_to_dict(st) ==
  [id |-> st.id, name |-> st.name,
   required_skill_level |-> st.required_skill_level,
   required_headcount |-> st.required_headcount,
   required_certification |-> st.required_certification]

Station_from_dict_ok(data) ==
  HasKey(data, "id") /\ HasKey(data, "name")
    /\ HasKey(data, "required_skill_level")

Station_from_dict(data) ==
  [id |-> data["id"], name |-> data["name"],
   required_skill_level |-> data["required_skill_level"],
   required_headcount |-> Get(data, "required_headcount", 1),
   required_certification |-> Get(data, "required_certification", 0)]

Employee_to_dict(emp) ==
  [id |-> emp.id, name |-> emp.name,
   station_competencies |-> emp.station_competencies,
   certification_level |-> emp.certification_level]

Employee_from_dict_ok(data) == HasKey(data, "id") /\ HasKey(data, "name")

Employee_from_dict(data) ==
  IF HasKey(data, "current_skill_level")
       /\ ~HasKey(data, "station_competencies")
  THEN [id |-> data["id"], name |-> data["name"],
        station_competencies |-> <<>>,
        certification_level |-> Get(data, "certification_level", 0)]
  ELSE [id |-> data["id"], name |-> data["name"],
        station_competencies |-> Get(data, "station_competencies", <<>>),
        certification_level |-> Get(data, "certification_level", 0)]

Assignment_to_dict(a) ==
  [station_id |-> a.station_id,
   assigned_employee_ids |-> a.assigned_employee_ids,
   is_fully_staffed |-> a.is_fully_staffed,
   unfilled_slots |-> a.unfilled_slots]

Assignment_from_dict_ok(data) == HasKey(data, "station_id")

Assignment_from_dict(data) ==
  [station_id |-> data["station_id"],
   assigned_employee_ids |-> Get(data, "assigned_employee_ids", <<>>),
   is_fully_staffed |-> Get(data, "is_fully_staffed", FALSE),
   unfilled_slots |-> Get(data, "unfilled_slots", 0)]

AssignmentLog_to_dict(log) ==
  [log_date |-> log.log_date, employee_id |-> log.employee_id,
   station_id |-> log.station_id, hours |-> log.hours]

AssignmentLog_from_dict_ok(data) ==
  HasKey(data, "log_date") /\ HasKey(data, "employee_id")
    /\ HasKey(data, "station_id")

AssignmentLog_from_dict(data) ==
  [log_date |-> data["log_date"], employee_id |-> data["employee_id"],
   station_id |-> data["station_id"], hours |-> Get(data, "hours", 8)]

\* the JSON documents to_json can return (list(set) has any order; the
\* employees dict is held without its order)
to_json(sts, emps, asgs, avail, absent, logs) ==
  {[stations |-> [i \in 1..Len(sts) |-> Station_to_dict(sts[i])],
    employees |-> [i \in 1..Len(es) |-> Employee_to_dict(emps[es[i]])],
    assignments |-> [i \in 1..Len(asgs) |-> Assignment_to_dict(asgs[i])],
    available_employees |-> av,
    absent_employees |-> ab,
    assignment_logs |-> [i \in 1..Len(logs) |->
                           AssignmentLog_to_dict(logs[i])]]
   : es \in Perms(DOMAIN emps), av \in Perms(avail), ab \in Perms(absent)}

\* {s.id: s for s in stations}: a later entry replaces an earlier one of
\* the same id, at the earlier one's place
RECURSIVE StationDict(_, _)
StationDict(list, acc) ==
  IF list = <<>> THEN acc
  ELSE LET x == Head(list)
       IN StationDict(Tail(list),
            IF x.id \in StationIds(acc)
            THEN [i \in 1..Len(acc) |-> IF acc[i].id = x.id THEN x ELSE acc[i]]
            ELSE Append(acc, x))

\* {e.id: e for e in employees}
EmployeeDict(list) ==
  [x \in {list[i].id : i \in 1..Len(list)} |->
     list[CHOOSE i \in 1..Len(list) :
            /\ list[i].id = x
            /\ \A j \in (i + 1)..Len(list) : list[j].id # x]]

RECURSIVE AssignmentDict(_, _)
AssignmentDict(list, acc) ==
  IF list = <<>> THEN acc
  ELSE AssignmentDict(Tail(list), DictSet(acc, Head(list)))

\* mutant: the sets are left as the constructor made them
restored_sets_constructed(state, emps) ==
  [available |-> DOMAIN emps, absent |-> {}]

\* lines 355-356
restored_sets(state, emps) ==
  [available |-> Range(Get(state, "available_employees", <<>>)),
   absent |-> Range(Get(state, "absent_employees", <<>>))]

\* does from_json(state) raise KeyError
from_json_raises(state) ==
  \/ ~HasKey(state, "stations") \/ ~HasKey(state, "employees")
  \/ \E i \in 1..Len(state["stations"]) :
       ~Station_from_dict_ok(state["stations"][i])
  \/ \E i \in 1..Len(state["employees"]) :
       ~Employee_from_dict_ok(state["employees"][i])
  \/ \E i \in 1..Len(Get(state, "assignments", <<>>)) :
       ~Assignment_from_dict_ok(state["assignments"][i])
  \/ \E i \in 1..Len(Get(state, "assignment_logs", <<>>)) :
       ~AssignmentLog_from_dict_ok(state["assignment_logs"][i])

\* the scheduler from_json(state) returns when it does not raise
\* mutant: the restored scheduler has the scenario of the current one
from_json_same_scenario(state) ==
  LET sl == state["stations"]
      el == state["employees"]
      al == Get(state, "assignments", <<>>)
      ll == Get(state, "assignment_logs", <<>>)
      emps == EmployeeDict([i \in 1..Len(el) |-> Employee_from_dict(el[i])])
      sets == restored_sets(state, emps)
  IN [stations |->
        StationDict([i \in 1..Len(sl) |-> Station_from_dict(sl[i])], <<>>),
      employees |-> emps,
      assignments |->
        AssignmentDict([i \in 1..Len(al) |-> Assignment_from_dict(al[i])],
                       <<>>),
      available_employees |-> sets.available,
      absent_employees |-> sets.absent,
      assignment_logs |->
        [i \in 1..Len(ll) |-> AssignmentLog_from_dict(ll[i])],
      scenario |-> scenario]

from_json(state) ==
  LET sl == state["stations"]
      el == state["employees"]
      al == Get(state, "assignments", <<>>)
      ll == Get(state, "assignment_logs", <<>>)
      emps == EmployeeDict([i \in 1..Len(el) |-> Employee_from_dict(el[i])])
      sets == restored_sets(state, emps)
  IN [stations |->
        StationDict([i \in 1..Len(sl) |-> Station_from_dict(sl[i])], <<>>),
      employees |-> emps,
      assignments |->
        AssignmentDict([i \in 1..Len(al) |-> Assignment_from_dict(al[i])],
                       <<>>),
      available_employees |-> sets.available,
      absent_employees |-> sets.absent,
      assignment_logs |->
        [i \in 1..Len(ll) |-> AssignmentLog_from_dict(ll[i])],
      scenario |-> "Balanced"]

\* the scheduler is replaced by from_json of the given document; the
\* record of the operation keeps the scenario of the scheduler replaced
Restore(state, what) ==
  IF from_json_raises(state)
  THEN /\ last' = [Op("from_json", what) EXCEPT
                     !.raised = TRUE, !.detail = <<scenario>>]
       /\ UNCHANGED <<stations, employees, assignments, available_employees,
                      absent_employees, assignment_logs, scenario,
                      schedule_generated>>
  ELSE LET r == from_json(state)
       IN /\ stations' = r.stations
          /\ employees' = r.employees
          /\ assignments' = r.assignments
          /\ available_employees' = r.available_employees
          /\ absent_employees' = r.absent_employees
          /\ assignment_logs' = r.assignment_logs
          /\ scenario' = r.scenario
          /\ last' = [Op("from_json", what) EXCEPT !.detail = <<scenario>>]
          /\ UNCHANGED schedule_generated

\* from_json(to_json()) of the current scheduler
SaveAndRestore ==
  \E state \in to_json(stations, employees, assignments,
                       available_employees, absent_employees,
                       assignment_logs) :
    Restore(state, "to_json")

\* documents that lack one key of their first station or employee entry
Damages ==
  {<<"stations", "id">>, <<"employees", "id">>,
   <<"employees", "station_competencies">>,
   <<"employees", "certification_level">>}

Damaged(state, d) ==
  [state EXCEPT ![d[1]] = [@ EXCEPT ![1] = Without(@, d[2])]]

\* from_json of a document that lacks a key
RestoreDamaged(d) ==
  \E state \in to_json(stations, employees, assignments,
                       available_employees, absent_employees,
                       assignment_logs) :
    /\ state[d[1]] # <<>>
    /\ Restore(Damaged(state, d), d[2])

\* the scheduler whose state is saved: a fully qualified and a partly
\* rated first employee, a qualified and an uncertified second one
InitPersist ==
  /\ stations \in StationLayouts
  /\ employees \in
       {[x \in EmployeeIds |-> IF x = "e1" THEN a ELSE b] :
          a \in {Employee("e1", MaxCert,
                          [s \in Range(StationIdSeq) |-> MaxSkill]),
                 Employee("e1", 0, [s \in {StationIdSeq[1]} |-> 1])},
          b \in {Employee("e2", MaxCert,
                          [s \in Range(StationIdSeq) |-> MaxSkill]),
                 Employee("e2", 0, [s \in Range(StationIdSeq) |-> 1])}}
  /\ assignments = <<>>
  /\ available_employees = EmployeeIds
  /\ absent_employees = {}
  /\ assignment_logs \in LogChoices
  /\ scenario = "Balanced"
  /\ schedule_generated = FALSE
  /\ last = Op("init", "")

NextPersist ==
  \/ \E arg \in ScenarioArgs : GenerateSchedule(arg)
  \/ \E eid \in EmployeeIds \cup {UnknownEmployee} : HandleAbsence(eid)
  \/ \E sid \in Range(StationIdSeq) \cup {UnknownStation} :
       RebalanceSchedule(sid)
  \/ SaveAndRestore
  \/ \E d \in Damages : RestoreDamaged(d)

SpecPersist == InitPersist /\ [][NextPersist]_vars

(***************************************************************************)
(* The engine with a history: three employees, two one-slot stations, and  *)
(* logs whose entries lie before, on and after the cutoff of the window or *)
(* carry a date that strptime rejects                                      *)
(***************************************************************************)
HistoryEmployeeIds == {"e1", "e2", "e3"}

HistoryStations ==
  <<Station("s1", 1, 1, 0), Station("s2", 1, 1, MaxCert)>>

HistoryStaff ==
  {[x \in HistoryEmployeeIds |->
      IF x = "e1" THEN a ELSE IF x = "e2" THEN b
      ELSE Employee("e3", 0, [s \in Range(StationIdSeq) |-> 1])] :
     a \in {Employee("e1", MaxCert, [s \in Range(StationIdSeq) |-> 1]),
            Employee("e1", MaxCert,
                     [s \in Range(StationIdSeq) |-> MaxSkill])},
     b \in {Employee("e2", 0, [s \in Range(StationIdSeq) |-> 1]),
            Employee("e2", 0, [s \in Range(StationIdSeq) |-> MaxSkill])}}

HistoryDates ==
  {IsoDate(Today - WindowDays - 1), IsoDate(Today - WindowDays),
   IsoDate(Today - 1), Unparseable(Today + 1)}

HistoryEntries ==
  [log_date : HistoryDates, employee_id : {"e2", "e3"},
   station_id : {"s1"}, hours : LogHours]

InitHistory ==
  /\ stations = HistoryStations
  /\ employees \in HistoryStaff
  /\ assignments = <<>>
  /\ available_employees = HistoryEmployeeIds
  /\ absent_employees = {}
  /\ assignment_logs \in UNION {[1..n -> HistoryEntries] : n \in 0..MaxHistory}
  /\ scenario = "Balanced"
  /\ schedule_generated = FALSE
  /\ last = Op("init", "")

\* mutant: the statistics are added to those built by the call before
BuildRotationStatsAccumulating ==
  /\ last' = [Op("_build_rotation_stats", "") EXCEPT
                !.rotation_stats =
                  SomeStats(BuildFrom(assignment_logs,
                                      last.rotation_stats.stats))]
  /\ UNCHANGED <<stations, employees, assignments, available_employees,
                 absent_employees, assignment_logs, scenario,
                 schedule_generated>>

\* a call of _build_rotation_stats() on its own, as the rotation dashboard
\* makes it (app.py 1694); it returns the map and writes nothing
BuildRotationStats ==
  /\ last' = [Op("_build_rotation_stats", "") EXCEPT
                !.rotation_stats =
                  SomeStats(_build_rotation_stats(assignment_logs))]
  /\ UNCHANGED <<stations, employees, assignments, available_employees,
                 absent_employees, assignment_logs, scenario,
                 schedule_generated>>

NextHistory ==
  \/ \E arg \in ScenarioArgs : GenerateSchedule(arg)
  \/ \E eid \in HistoryEmployeeIds : HandleAbsence(eid)
  \/ \E sid \in Range(StationIdSeq) : RebalanceSchedule(sid)
  \/ BuildRotationStats

SpecHistory == InitHistory /\ [][NextHistory]_vars

(***************************************************************************)
(* app.py: Finalize Day (schedule_section, 1432-1544)                      *)
(***************************************************************************)
\* the date input offers every calendar day: today (its default) and a day
\* after it
FinalizeDates == {IsoDate(Today), IsoDate(Today + 1)}

\* the hours column: the default 8.0 and an edited value
FinalizeHours == {8, 4}

\* app.py 1454-1470: one row per assigned employee, in the order of the
\* Assignment map and of each assigned list; Assignments of unknown
\* stations and unknown employee ids are skipped
RECURSIVE finalize_rows(_, _, _)
finalize_rows(sts, emps, asgs) ==
  IF asgs = <<>> THEN <<>>
  ELSE LET a == Head(asgs)
           ids == IF a.station_id \in StationIds(sts)
                  THEN SelectSeq(a.assigned_employee_ids,
                                 LAMBDA e : e \in DOMAIN emps)
                  ELSE <<>>
       IN [k \in 1..Len(ids) |->
             [employee_id |-> ids[k], station_id |-> a.station_id]]
          \o finalize_rows(sts, emps, Tail(asgs))

LogKey(log) == <<log.log_date, log.employee_id, log.station_id>>

LogKeys(logs) == {LogKey(logs[i]) : i \in 1..Len(logs)}

\* app.py 1532-1535: the first entry with the key is replaced
ReplaceFirst(logs, log) ==
  LET i == CHOOSE j \in 1..Len(logs) :
             /\ LogKey(logs[j]) = LogKey(log)
             /\ \A k \in 1..(j - 1) : LogKey(logs[k]) # LogKey(log)
  IN [logs EXCEPT ![i] = log]

\* mutant: every new entry is appended
RECURSIVE MergeLogsAppending(_, _, _)
MergeLogsAppending(logs, existing_keys, new_logs) ==
  IF new_logs = <<>> THEN logs
  ELSE MergeLogsAppending(Append(logs, Head(new_logs)), existing_keys,
                          Tail(new_logs))

\* mutant: the entries of the finalized date are replaced as a whole
MergeLogsReplacingDay(logs, existing_keys, new_logs) ==
  SelectSeq(logs, LAMBDA log : \A k \in 1..Len(new_logs) :
                                 log.log_date # new_logs[k].log_date)
    \o new_logs

\* app.py 1529-1538
RECURSIVE MergeLogs(_, _, _)
MergeLogs(logs, existing_keys, new_logs) ==
  IF new_logs = <<>> THEN logs
  ELSE LET log == Head(new_logs)
       IN IF LogKey(log) \in existing_keys
          THEN MergeLogs(ReplaceFirst(logs, log), existing_keys,
                         Tail(new_logs))
          ELSE MergeLogs(Append(logs, log), existing_keys \cup {LogKey(log)},
                         Tail(new_logs))

\* the "Finalize Day" button, app.py 1504-1542.  The section is rendered
\* only while the schedule is shown, and the button only when there is a
\* row.  The log is kept within MaxFinalLog entries.
FinalizeDay(finalize_date) ==
  /\ stations # <<>> /\ DOMAIN employees # {}
  /\ schedule_generated
  /\ LET rows == finalize_rows(stations, employees, assignments)
     IN /\ rows # <<>>
        /\ \E hours \in [1..Len(rows) -> FinalizeHours] :
             LET new_logs ==
                   [k \in 1..Len(rows) |->
                      [log_date |-> finalize_date,
                       employee_id |-> rows[k].employee_id,
                       station_id |-> rows[k].station_id,
                       hours |-> hours[k]]]
                 merged == MergeLogs(assignment_logs,
                                     LogKeys(assignment_logs), new_logs)
             IN /\ Len(merged) <= MaxFinalLog
                /\ assignment_logs' = merged
                /\ last' = [Op("finalize_day", "") EXCEPT
                              !.detail = new_logs]
  /\ UNCHANGED <<stations, employees, assignments, available_employees,
                 absent_employees, scenario, schedule_generated>>

FinalizeStations == <<Station("s1", 1, 1, 0), Station("s2", 1, 1, MaxCert)>>

FinalizeStaff ==
  [e \in EmployeeIds |->
     IF e = "e1"
     THEN Employee(e, MaxCert, [s \in Range(StationIdSeq) |-> MaxSkill])
     ELSE Employee(e, 0, [s \in Range(StationIdSeq) |-> 1])]

\* the stored log at the session start: one entry per key at most
FinalizeSeeds ==
  LET y == [log_date |-> IsoDate(Today - 1), employee_id |-> "e1",
            station_id |-> "s1", hours |-> 8]
      t == [log_date |-> IsoDate(Today), employee_id |-> "e1",
            station_id |-> "s1", hours |-> 8]
  IN {<<>>, <<t>>, <<y, t>>}

InitFinalize ==
  /\ stations = FinalizeStations
  /\ employees = FinalizeStaff
  /\ assignments = <<>>
  /\ available_employees = EmployeeIds
  /\ absent_employees = {}
  /\ assignment_logs \in FinalizeSeeds
  /\ scenario = "Balanced"
  /\ schedule_generated = FALSE
  /\ last = Op("init", "")

NextFinalize ==
  \/ \E name \in ScenarioNames : GenerateButton(name)
  \/ \E eid \in EmployeeIds : HandleAbsence(eid)
  \/ ApplyOverride
  \/ \E d \in FinalizeDates : FinalizeDay(d)

SpecFinalize == InitFinalize /\ [][NextFinalize]_vars

(***************************************************************************)
(* Properties.  The helpers below restate the notions of the specification *)
(* on the current state, independently of the operators of the model.      *)
(***************************************************************************)
Assigned(i) == assignments[i].assigned_employee_ids

StationAt(i) == StationOf(stations, assignments[i].station_id)

Competency(e, sid) ==
  IF sid \in DOMAIN employees[e].station_competencies
  THEN employees[e].station_competencies[sid] ELSE 0

Gate(e, st) ==
  /\ employees[e].certification_level >= st.required_certification
  /\ Competency(e, st.id) >= st.required_skill_level

Occurrences ==
  UNION {{<<i, k>> : k \in 1..Len(Assigned(i))} : i \in 1..Len(assignments)}

\* C1: no worker id occurs in the assigned lists of two different stations
\* or twice in one station's list, in every reachable state.
C1_NoDoubleBooking ==
  \A p, q \in Occurrences :
    p # q => Assigned(p[1])[p[2]] # Assigned(q[1])[q[2]]

\* a conflict-free override has put a worker on each of two stations
C1_Witness ==
  /\ last.op = "apply_override" /\ ~last.raised
  /\ Len(assignments) = 2
  /\ \A i \in 1..Len(assignments) : Assigned(i) # <<>>

\* C2: every worker in a station's assigned list meets the station's
\* certification and competency minimums.
C2_AssignedAreQualified ==
  \A i \in 1..Len(assignments) :
    \A e \in Range(Assigned(i)) : Gate(e, StationAt(i))

\* after an absence a station keeps an open slot although a worker is
\* available, because that worker fails the gate
C2_Witness ==
  /\ last.op = "handle_absence" /\ last.ret_affected # <<>>
  /\ \E i \in 1..Len(assignments) :
       /\ assignments[i].station_id = last.ret_affected[1]
       /\ assignments[i].unfilled_slots > 0
       /\ \E e \in available_employees : ~Gate(e, StationAt(i))

\* C3: right after generate_schedule every station has an Assignment with
\* at most required_headcount workers and unfilled_slots = required_headcount
\* - number assigned; the call does not raise.
C3_GenerateCoversAllStations ==
  last.op = "generate_schedule" =>
    /\ ~last.raised
    /\ \A st \in Range(stations) :
         /\ st.id \in AssignedStationIds(assignments)
         /\ \A i \in 1..Len(assignments) :
              assignments[i].station_id = st.id =>
                /\ Len(Assigned(i)) <= st.required_headcount
                /\ assignments[i].unfilled_slots =
                     st.required_headcount - Len(Assigned(i))

\* generate_schedule has run although no present worker qualifies for
\* some station, and another station is staffed
C3_Witness ==
  /\ last.op = "generate_schedule"
  /\ \E i, j \in 1..Len(assignments) :
       /\ \A e \in DOMAIN employees : ~Gate(e, StationAt(i))
       /\ Assigned(i) = <<>>
       /\ assignments[i].unfilled_slots = StationAt(i).required_headcount
       /\ Assigned(j) # <<>>

\* C4: right after generate_schedule, no worker qualified for an
\* understaffed station A sits on a station of strictly lower required skill.
C4_HighSkillStationsFirst ==
  last.op = "generate_schedule" =>
    \A i, j \in 1..Len(assignments) :
      (/\ assignments[i].unfilled_slots > 0
       /\ StationAt(j).required_skill_level < StationAt(i).required_skill_level)
      => \A e \in Range(Assigned(j)) : ~Gate(e, StationAt(i))

\* the higher-skill station took a worker who also qualifies for the
\* lower-skill station, which stays understaffed
C4_Witness ==
  /\ last.op = "generate_schedule"
  /\ \E i, j \in 1..Len(assignments) :
       /\ StationAt(j).required_skill_level < StationAt(i).required_skill_level
       /\ assignments[i].unfilled_slots > 0
       /\ assignments[j].unfilled_slots > 0
       /\ \E e \in Range(Assigned(i)) : Gate(e, StationAt(j))

AfterAbsence == last'.op = "handle_absence" /\ ~last'.raised

\* C5 as stated: handle_absence(w) leaves every affected station either
\* fully staffed or with unfilled_slots exactly one greater than before.
C5_FullOrOneMore ==
  [][AfterAbsence =>
       \A i \in 1..Len(assignments) :
         last'.arg \in Range(Assigned(i)) =>
           LET after == AssignmentOf(assignments',
                                     assignments[i].station_id).unfilled_slots
           IN after = 0 \/ after = assignments[i].unfilled_slots + 1]_vars

\* C5 amended: handle_absence(w) leaves every affected station either fully
\* staffed, or with no available worker qualified for it and unfilled_slots
\* at most one greater than before; exactly one greater when no qualified
\* substitute was available.
C5_FullOrExhausted ==
  [][AfterAbsence =>
       \A i \in 1..Len(assignments) :
         last'.arg \in Range(Assigned(i)) =>
           LET st == StationAt(i)
               before == assignments[i].unfilled_slots
               after == AssignmentOf(assignments', st.id).unfilled_slots
           IN /\ \/ after = 0
                 \/ /\ after <= before + 1
                    /\ \A e \in available_employees' : ~Gate(e, st)
              /\ (\A e \in available_employees \ {last'.arg} : ~Gate(e, st))
                   => after = before + 1]_vars

\* handle_absence took a substitute for the affected station, which still
\* has an open slot
C5_Witness ==
  /\ last.op = "handle_absence" /\ last.ret_affected # <<>>
  /\ \E i \in 1..Len(assignments) :
       /\ assignments[i].station_id = last.ret_affected[1]
       /\ assignments[i].unfilled_slots > 0
       /\ Assigned(i) # <<>>

\* C6: after handle_absence(w) for a known w: w is absent, not available,
\* on no station, and the returned list holds exactly the stations that
\* held w before the call, at most one.
C6_AbsenceEffect ==
  [][(AfterAbsence /\ last'.arg \in DOMAIN employees) =>
       LET w == last'.arg
           ret == last'.ret_affected
       IN /\ w \in absent_employees'
          /\ w \notin available_employees'
          /\ \A i \in 1..Len(assignments') :
               w \notin Range(assignments'[i].assigned_employee_ids)
          /\ Range(ret) = {assignments[i].station_id :
                             i \in {j \in 1..Len(assignments) :
                                      w \in Range(Assigned(j))}}
          /\ Len(ret) <= 1]_vars

\* handle_absence removed a worker from a station, and another worker is
\* still available
C6_Witness ==
  /\ last.op = "handle_absence" /\ ~last.raised
  /\ Len(last.ret_affected) = 1
  /\ last.arg \in absent_employees
  /\ available_employees # {}

\* C7: handle_absence with an unknown id raises and changes nothing.
C7_UnknownEmployeeRaises ==
  [][(last'.op = "handle_absence" /\ last'.arg \notin DOMAIN employees) =>
       /\ last'.raised
       /\ UNCHANGED <<stations, employees, assignments, available_employees,
                      absent_employees, assignment_logs, scenario>>]_vars

\* the failing call happened on a scheduler that holds a schedule and an
\* absent worker
C7_Witness ==
  /\ last.op = "handle_absence" /\ last.raised
  /\ last.arg \notin DOMAIN employees
  /\ AssignedAnywhere(assignments) # {}
  /\ absent_employees # {}

\* C8: rebalance_schedule with an unknown id raises and changes nothing; no
\* Assignment is created for the id.
C8_UnknownStationRaises ==
  [][(last'.op = "rebalance_schedule"
        /\ last'.arg \notin StationIds(stations)) =>
       /\ last'.raised
       /\ last'.arg \notin AssignedStationIds(assignments')
       /\ UNCHANGED <<stations, employees, assignments, available_employees,
                      absent_employees, assignment_logs, scenario>>]_vars

\* the failing call happened before any Assignment existed
C8_Witness ==
  /\ last.op = "rebalance_schedule" /\ last.raised
  /\ last.arg \notin StationIds(stations)
  /\ assignments = <<>>

\* C9: rebalance_schedule(s) for a known s returns true only if s then has
\* exactly required_headcount workers, false only if no available worker is
\* qualified for s, and the value returned is the stored is_fully_staffed.
C9_RebalanceReturn ==
  (last.op = "rebalance_schedule" /\ ~last.raised) =>
    \E i \in 1..Len(assignments) :
      /\ assignments[i].station_id = last.arg
      /\ last.ret_staffed =>
           Len(Assigned(i)) = StationAt(i).required_headcount
      /\ ~last.ret_staffed =>
           \A e \in available_employees : ~Gate(e, StationAt(i))
      /\ last.ret_staffed = assignments[i].is_fully_staffed

\* C10: every Assignment has unfilled_slots = required_headcount - number
\* assigned, and 0 <= unfilled_slots <= required_headcount.
C10_UnfilledSlotsConsistent ==
  \A i \in 1..Len(assignments) :
    /\ assignments[i].unfilled_slots =
         StationAt(i).required_headcount - Len(Assigned(i))
    /\ assignments[i].unfilled_slots >= 0
    /\ assignments[i].unfilled_slots <= StationAt(i).required_headcount

\* C11: the available set and the absent set are disjoint in every state
\* reachable through construction, generate_schedule, handle_absence,
\* rebalance_schedule, manual override, marking a worker absent or present,
\* and adding or removing a worker.
C11_AvailableAbsentDisjoint ==
  available_employees \cap absent_employees = {}

\* a worker was marked present again while an added colleague is absent
C11_Witness ==
  /\ last.op = "mark_present"
  /\ last.arg \in available_employees
  /\ absent_employees # {}
  /\ Cardinality(DOMAIN employees) = 2

\* C12: from_json(to_json(S)) has the same stations, workers, Assignments
\* (ids in order, unfilled_slots, is_fully_staffed), available set, absent
\* set and log entries as S; the two sets are those of the snapshot.
C12_RoundTrip ==
  [][(last'.op = "from_json" /\ last'.arg = "to_json") =>
       /\ ~last'.raised
       /\ stations' = stations
       /\ employees' = employees
       /\ assignments' = assignments
       /\ available_employees' = available_employees
       /\ absent_employees' = absent_employees
       /\ assignment_logs' = assignment_logs]_vars

\* a scheduler was restored in which a worker is absent, another is
\* assigned, a station has an open slot, and the log is not empty
C12_Witness ==
  /\ last.op = "from_json" /\ last.arg = "to_json"
  /\ absent_employees # {}
  /\ assignment_logs # <<>>
  /\ AssignedAnywhere(assignments) # {}
  /\ \E i \in 1..Len(assignments) : assignments[i].unfilled_slots > 0

\* C18: restoring a snapshot whose worker entry lacks its competency map,
\* or whose station or worker entry lacks its id, fails with an error.
C18_MissingFieldRaises ==
  (last.op = "from_json" /\ last.arg \in {"id", "station_competencies"})
    => last.raised

(***************************************************************************)
(* Ranking notions of the specification.  ScoreOf is the priority times    *)
(* 72000: skill in sixths, recency in thirtieths, fatigue in 240ths.       *)
(***************************************************************************)
SkillSum(e, st) == Competency(e, st.id) + employees[e].certification_level

HasStats(e, st, rs) == ~rs.is_none /\ <<e, st.id>> \in DOMAIN rs.stats

\* recency_score in thirtieths
RecencyOf(e, st, rs) ==
  LET days == IF HasStats(e, st, rs)
              THEN rs.stats[<<e, st.id>>].days_since_last ELSE 30
  IN IF days < 30 THEN days ELSE 30

\* fatigue_score in 240ths
FatigueOf(e, st, rs) ==
  LET hours == IF HasStats(e, st, rs)
               THEN rs.stats[<<e, st.id>>].total_hours ELSE 0
  IN IF hours < 240 THEN hours ELSE 240

ScoreOf(e, st, rs, w) ==
  LET skill == IF w.invert_skill THEN 6 - SkillSum(e, st) ELSE SkillSum(e, st)
  IN w.skill_weight * 120 * skill
       + w.recency_weight * 24 * RecencyOf(e, st, rs)
       - w.fatigue_weight * 3 * FatigueOf(e, st, rs)

\* right after generate_schedule: the workers available at the turn of the
\* i-th station processed, and the qualified ones among them
TurnAvailable(i) ==
  (DOMAIN employees \ absent_employees)
    \ UNION {Range(Assigned(j)) : j \in 1..(i - 1)}

Candidates(i) == {e \in TurnAvailable(i) : Gate(e, StationAt(i))}

\* every station took min(required_headcount, number of candidates) of its
\* candidates
TurnsFilled ==
  \A i \in 1..Len(assignments) :
    /\ Range(Assigned(i)) \subseteq Candidates(i)
    /\ Len(Assigned(i)) =
         (IF Cardinality(Candidates(i)) < StationAt(i).required_headcount
          THEN Cardinality(Candidates(i))
          ELSE StationAt(i).required_headcount)

\* no unassigned candidate of a turn scores strictly higher under w than
\* an assigned one
TurnsRanked(rs, w) ==
  \A i \in 1..Len(assignments) :
    \A a \in Range(Assigned(i)) :
      \A u \in Candidates(i) \ Range(Assigned(i)) :
        ScoreOf(u, StationAt(i), rs, w) <= ScoreOf(a, StationAt(i), rs, w)

\* C13: with a non-empty log, generate_schedule fills each station at its
\* turn with the required_headcount highest-priority qualified available
\* workers (all if fewer), the priority being the weighted score of the
\* active scenario on the statistics built from the log.
C13_HighestPriorityFirst ==
  (last.op = "generate_schedule" /\ assignment_logs # <<>>) =>
    /\ ~last.rotation_stats.is_none
    /\ TurnsFilled
    /\ TurnsRanked(last.rotation_stats, SCENARIOS[scenario])

\* a less skilled worker without history at the station was preferred to a
\* more skilled one who worked there within the window
C13_Witness ==
  /\ last.op = "generate_schedule" /\ assignment_logs # <<>>
  /\ \E i \in 1..Len(assignments) :
       \E a \in Range(Assigned(i)) :
         \E u \in Candidates(i) \ Range(Assigned(i)) :
           /\ SkillSum(u, StationAt(i)) > SkillSum(a, StationAt(i))
           /\ <<u, StationAt(i).id>> \in DOMAIN last.rotation_stats.stats
           /\ <<a, StationAt(i).id>> \notin DOMAIN last.rotation_stats.stats

\* C14: rebalance_schedule, called directly or through handle_absence,
\* takes for each open slot a candidate of maximal priority under the
\* active scenario when the log is non-empty: no qualified worker left
\* available scores strictly higher than a worker the call assigned.
C14_RebalanceRanksByPriority ==
  [][(last'.op \in {"rebalance_schedule", "handle_absence"}
        /\ ~last'.raised /\ assignment_logs # <<>>) =>
       \A i \in 1..Len(assignments') :
         LET st == StationOf(stations, assignments'[i].station_id)
             before ==
               IF st.id \in AssignedStationIds(assignments)
               THEN Range(AssignmentOf(assignments,
                                       st.id).assigned_employee_ids)
               ELSE {}
             taken == Range(assignments'[i].assigned_employee_ids) \ before
             rs == StatsOf(assignment_logs)
         IN \A x \in taken :
              \A y \in available_employees' :
                Gate(y, st) =>
                  ScoreOf(y, st, rs, SCENARIOS[scenario])
                    <= ScoreOf(x, st, rs, SCENARIOS[scenario])]_vars

\* (certification_level, competency) of a is lexicographically greater
\* than that of b
PairGreater(a, b, st) ==
  \/ employees[a].certification_level > employees[b].certification_level
  \/ /\ employees[a].certification_level = employees[b].certification_level
     /\ Competency(a, st.id) > Competency(b, st.id)

\* C15: with an empty log, generate_schedule ranks the candidates of each
\* station by (certification_level, competency) descending, whatever
\* scenario is active: no unassigned candidate of a turn has a strictly
\* greater pair than an assigned one.
C15_EmptyLogFallback ==
  (last.op = "generate_schedule" /\ assignment_logs = <<>>) =>
    /\ TurnsFilled
    /\ \A i \in 1..Len(assignments) :
         \A a \in Range(Assigned(i)) :
           \A u \in Candidates(i) \ Range(Assigned(i)) :
             ~PairGreater(u, a, StationAt(i))

\* under Cross-Training and an empty log the candidate with the greater
\* pair was assigned and the lesser one left out
C15_Witness ==
  /\ last.op = "generate_schedule" /\ assignment_logs = <<>>
  /\ scenario = "Cross-Training"
  /\ \E i \in 1..Len(assignments) :
       \E a \in Range(Assigned(i)) :
         \E u \in Candidates(i) \ Range(Assigned(i)) :
           PairGreater(a, u, StationAt(i))

\* C16: generate_schedule called without a scenario argument ranks the
\* candidates with the Balanced weights, also after an earlier call with
\* another scenario.
C16_DefaultIsBalanced ==
  (last.op = "generate_schedule" /\ last.arg = "None"
     /\ assignment_logs # <<>>) =>
    TurnsRanked(last.rotation_stats, SCENARIOS["Balanced"])

SameHistory(a, b, st, rs) ==
  /\ RecencyOf(a, st, rs) = RecencyOf(b, st, rs)
  /\ FatigueOf(a, st, rs) = FatigueOf(b, st, rs)

\* at every station with one slot fewer than candidates, of two candidates
\* with the same recency and fatigue the one left out has the larger
\* competency + certification sum
LowerSkillTaken ==
  \A i \in 1..Len(assignments) :
    Cardinality(Candidates(i)) = StationAt(i).required_headcount + 1 =>
      \A a \in Range(Assigned(i)) :
        \A u \in Candidates(i) \ Range(Assigned(i)) :
          SameHistory(a, u, StationAt(i), last.rotation_stats) =>
            SkillSum(u, StationAt(i)) >= SkillSum(a, StationAt(i))

\* C17 as stated: under a scenario with invert_skill, generate_schedule
\* leaves out the higher-skilled of two candidates with the same recency
\* and fatigue, for every content of the log including the empty log.
C17_LowerSkillPreferred ==
  (last.op = "generate_schedule" /\ SCENARIOS[scenario].invert_skill) =>
    LowerSkillTaken

\* C17 amended: the same, whenever the history log is not empty.
C17_LowerSkillPreferredWithLog ==
  (last.op = "generate_schedule" /\ SCENARIOS[scenario].invert_skill
     /\ assignment_logs # <<>>) =>
    LowerSkillTaken

\* with a log, the less skilled of two candidates with the same history
\* was assigned and the more skilled one left out
C17_Witness ==
  /\ last.op = "generate_schedule" /\ SCENARIOS[scenario].invert_skill
  /\ assignment_logs # <<>>
  /\ \E i \in 1..Len(assignments) :
       /\ Cardinality(Candidates(i)) = StationAt(i).required_headcount + 1
       /\ \E a \in Range(Assigned(i)) :
            \E u \in Candidates(i) \ Range(Assigned(i)) :
              /\ SameHistory(a, u, StationAt(i), last.rotation_stats)
              /\ SkillSum(u, StationAt(i)) > SkillSum(a, StationAt(i))

(***************************************************************************)
(* The rotation statistics as the specification states them, on the        *)
(* entries of the log whose date parses.                                   *)
(***************************************************************************)
Counted(e, sid) ==
  {i \in 1..Len(assignment_logs) :
     /\ assignment_logs[i].employee_id = e
     /\ assignment_logs[i].station_id = sid
     /\ assignment_logs[i].log_date.parses
     /\ assignment_logs[i].log_date.rank >= Today - WindowDays}

RECURSIVE SumHours(_)
SumHours(I) ==
  IF I = {} THEN 0
  ELSE LET i == CHOOSE x \in I : TRUE
       IN assignment_logs[i].hours + SumHours(I \ {i})

StatsAsSpecified(m) ==
  /\ DOMAIN m =
       {k \in {<<assignment_logs[i].employee_id,
                 assignment_logs[i].station_id>> :
                 i \in 1..Len(assignment_logs)} : Counted(k[1], k[2]) # {}}
  /\ \A k \in DOMAIN m :
       LET I == Counted(k[1], k[2])
       IN /\ m[k].total_hours = SumHours(I)
          /\ m[k].assignment_count = Cardinality(I)
          /\ \E i \in I :
               /\ m[k].days_since_last = Today - assignment_logs[i].log_date.rank
               /\ \A j \in I : assignment_logs[j].log_date.rank
                                  <= assignment_logs[i].log_date.rank

AllParse == \A i \in 1..Len(assignment_logs) : assignment_logs[i].log_date.parses

\* C19: for a log of dated entries, the statistics built have as keys
\* exactly the (worker, station) pairs with an entry dated on or after as_of
\* - window; total_hours, assignment_count and days_since_last are the sum,
\* the number and the smallest age of those entries, whatever their order.
C19_StatsOfWindow ==
  (last.op = "generate_schedule" /\ assignment_logs # <<>> /\ AllParse) =>
    StatsAsSpecified(last.rotation_stats.stats)

\* the log holds an entry dated on the cutoff, which is counted, and an
\* entry of another worker dated the day before, which is not
C19_Witness ==
  /\ last.op = "generate_schedule" /\ AllParse
  /\ \E i, j \in 1..Len(assignment_logs) :
       /\ assignment_logs[i].log_date.rank = Today - WindowDays
       /\ assignment_logs[j].log_date.rank = Today - WindowDays - 1
       /\ <<assignment_logs[i].employee_id, assignment_logs[i].station_id>>
            \in DOMAIN last.rotation_stats.stats
       /\ <<assignment_logs[j].employee_id, assignment_logs[j].station_id>>
            \notin DOMAIN last.rotation_stats.stats

\* C20: a log entry whose date cannot be parsed raises no error, adds
\* nothing to total_hours, assignment_count or days_since_last of any pair
\* and creates no key: the statistics are those of the other entries.
C20_UnparseableSkipped ==
  (last.op = "generate_schedule" /\ ~AllParse) =>
    /\ ~last.raised
    /\ StatsAsSpecified(last.rotation_stats.stats)

Selected(sel_i) == {sel_i[k] : k \in 1..Len(sel_i)} \ {Unassigned}

\* C23: after a conflict-free manual override every station that has an
\* Assignment holds exactly the selected worker ids, unfilled_slots =
\* required_headcount - number selected, is_fully_staffed = (unfilled_slots
\* = 0), and available = all workers - absent - assigned anywhere.
C23_OverrideApplied ==
  (last.op = "apply_override" /\ ~last.raised) =>
    /\ Len(last.detail) = Len(assignments)
    /\ \A i \in 1..Len(assignments) :
         /\ Range(Assigned(i)) = Selected(last.detail[i])
         /\ Len(Assigned(i)) = Cardinality(Selected(last.detail[i]))
         /\ assignments[i].unfilled_slots =
              StationAt(i).required_headcount - Len(Assigned(i))
         /\ assignments[i].is_fully_staffed
              = (assignments[i].unfilled_slots = 0)
    /\ available_employees =
         (DOMAIN employees \ absent_employees)
           \ UNION {Range(Assigned(i)) : i \in 1..Len(assignments)}

\* an override emptied a station and put a worker on another, and a
\* present worker is left available
C23_Witness ==
  /\ last.op = "apply_override" /\ ~last.raised
  /\ available_employees # {}
  /\ \E i, j \in 1..Len(assignments) :
       /\ Assigned(i) = <<>> /\ assignments[i].unfilled_slots > 0
       /\ Assigned(j) # <<>>

\* C25: at the end of generate_schedule, handle_absence, rebalance_schedule
\* and manual override every Assignment has is_fully_staffed =
\* (unfilled_slots = 0), and get_unfilled_stations returns exactly the ids
\* of the stations whose Assignment has unfilled_slots > 0.
C25_StaffedFlagDerived ==
  (last.op \in {"generate_schedule", "handle_absence", "rebalance_schedule",
                "apply_override"}) =>
    /\ \A i \in 1..Len(assignments) :
         assignments[i].is_fully_staffed = (assignments[i].unfilled_slots = 0)
    /\ Range(get_unfilled_stations(assignments)) =
         {assignments[i].station_id :
            i \in {j \in 1..Len(assignments) :
                     assignments[j].unfilled_slots > 0}}

\* after an absence one station is understaffed and another fully staffed
C25_Witness ==
  /\ last.op = "handle_absence" /\ last.ret_affected # <<>>
  /\ \E i, j \in 1..Len(assignments) :
       /\ assignments[i].unfilled_slots > 0
       /\ assignments[j].unfilled_slots = 0 /\ Assigned(j) # <<>>

\* C26: in an engine-only sequence a station with unfilled_slots > 0 has no
\* worker in the available set who is qualified for it.
C26_GreedyFillMaximal ==
  \A i \in 1..Len(assignments) :
    assignments[i].unfilled_slots > 0 =>
      \A e \in available_employees : ~Gate(e, StationAt(i))

\* a direct rebalance_schedule could not fill the station although a
\* worker is available
C26_Witness ==
  /\ last.op = "rebalance_schedule" /\ ~last.raised /\ ~last.ret_staffed
  /\ available_employees # {}
  /\ \E i \in 1..Len(assignments) :
       /\ assignments[i].station_id = last.arg
       /\ assignments[i].unfilled_slots > 0

LenBefore(sid) ==
  IF sid \in AssignedStationIds(assignments)
  THEN Len(AssignmentOf(assignments, sid).assigned_employee_ids) ELSE 0

UnfilledBefore(sid) ==
  IF sid \in AssignedStationIds(assignments)
  THEN AssignmentOf(assignments, sid).unfilled_slots ELSE 0

AtMost(n, a, b) == n <= a /\ n <= b

\* C27: every call returns, and the fill loop of rebalance_schedule makes
\* at most min(unfilled_slots at entry, available workers at entry)
\* assignments, whether called directly or for the station affected by
\* handle_absence (entered with one more open slot and without the absent
\* worker).
C27_FillLoopBounded ==
  [][/\ ((last'.op = "rebalance_schedule" /\ ~last'.raised) =>
           AtMost(Len(AssignmentOf(assignments',
                                   last'.arg).assigned_employee_ids)
                    - LenBefore(last'.arg),
                  UnfilledBefore(last'.arg),
                  Cardinality(available_employees)))
      /\ ((last'.op = "handle_absence" /\ ~last'.raised) =>
           \A i \in 1..Len(assignments) :
             (last'.arg \in Range(Assigned(i))) =>
               AtMost(Len(assignments'[i].assigned_employee_ids)
                        - (Len(Assigned(i)) - 1),
                      assignments[i].unfilled_slots + 1,
                      Cardinality(available_employees \ {last'.arg})))]_vars

\* a direct rebalance_schedule assigned a worker to a station with open
\* slots and stopped with a slot still open
C27_Witness ==
  /\ last.op = "rebalance_schedule" /\ ~last.raised /\ ~last.ret_staffed
  /\ \E i \in 1..Len(assignments) :
       /\ assignments[i].station_id = last.arg
       /\ Assigned(i) # <<>>

\* C28: generate_schedule leaves the absent set, the log, the stations and
\* the workers unchanged, and its result is a fill from scratch: one
\* Assignment per station, each filled from the workers that are not absent
\* and not taken at an earlier turn, and available = all workers - absent -
\* assigned, whatever the assignments and the available set were before.
C28_GenerateStartsAfresh ==
  [][(last'.op = "generate_schedule") =>
       /\ UNCHANGED <<absent_employees, assignment_logs, stations, employees>>
       /\ AssignedStationIds(assignments') = StationIds(stations)
       /\ Len(assignments') = Len(stations)
       /\ TurnsFilled'
       /\ available_employees' =
            (DOMAIN employees \ absent_employees)
              \ AssignedAnywhere(assignments')]_vars

\* generate_schedule ran on a schedule that an absence had changed, with a
\* worker absent
C28_Witness ==
  /\ last.op = "generate_schedule"
  /\ absent_employees # {}
  /\ AssignedAnywhere(assignments) # {}
  /\ schedule_generated

\* C29: marking a worker absent with the presence toggle leaves the
\* station that held the worker as handle_absence would: fully staffed, or
\* with no qualified worker left in the available set.
C29_ToggleRebalances ==
  [][(last'.op = "mark_absent") =>
       \A i \in 1..Len(assignments) :
         last'.arg \in Range(Assigned(i)) =>
           \/ assignments'[i].unfilled_slots = 0
           \/ \A e \in available_employees' : ~Gate(e, StationAt(i))]_vars

HasDuplicate(sel) ==
  \E i, j \in 1..Len(sel) : \E k \in 1..Len(sel[i]), l \in 1..Len(sel[j]) :
    /\ (i # j \/ k # l)
    /\ sel[i][k] # Unassigned
    /\ sel[i][k] = sel[j][l]

\* C30: an override in which one worker is selected for more than one slot
\* is rejected and changes no Assignment and not the available set.
C30_ConflictRejected ==
  [][(last'.op = "apply_override" /\ HasDuplicate(last'.detail)) =>
       /\ last'.raised
       /\ UNCHANGED <<assignments, available_employees>>]_vars

\* an override that selected one worker for both slots of a station was
\* rejected
C30_Witness ==
  /\ last.op = "apply_override" /\ last.raised
  /\ \E i \in 1..Len(last.detail) :
       /\ Len(last.detail[i]) = 2
       /\ last.detail[i][1] = last.detail[i][2]

\* C24: after a station is deleted its id is a key of no worker's
\* competency map, no Assignment is keyed by it and it is not in the
\* station map; the competency entries and the Assignments of the other
\* stations, and the other stations, are unchanged.
C24_StationDeletionCascades ==
  [][(last'.op = "remove_station") =>
       LET sid == last'.arg
       IN /\ sid \notin StationIds(stations')
          /\ sid \notin AssignedStationIds(assignments')
          /\ DOMAIN employees' = DOMAIN employees
          /\ \A e \in DOMAIN employees :
               /\ sid \notin DOMAIN employees'[e].station_competencies
               /\ \A x \in DOMAIN employees[e].station_competencies \ {sid} :
                    /\ x \in DOMAIN employees'[e].station_competencies
                    /\ employees'[e].station_competencies[x]
                         = employees[e].station_competencies[x]
               /\ DOMAIN employees'[e].station_competencies
                    \subseteq DOMAIN employees[e].station_competencies
          /\ \A i \in 1..Len(assignments) :
               assignments[i].station_id # sid =>
                 \E j \in 1..Len(assignments') :
                   assignments'[j] = assignments[i]
          /\ Len(assignments') <= Len(assignments)
          /\ \A i \in 1..Len(stations) :
               stations[i].id # sid =>
                 \E j \in 1..Len(stations') : stations'[j] = stations[i]
          /\ Len(stations') = Len(stations) - 1]_vars

\* a station that held a worker was deleted: the worker, who keeps a rating
\* for the other station, is neither assigned nor available nor absent, and
\* the other station still has its Assignment and its worker
C24_Witness ==
  /\ last.op = "remove_station"
  /\ AssignedAnywhere(assignments) # {}
  /\ \E e \in DOMAIN employees :
       /\ e \notin available_employees \cup absent_employees
       /\ e \notin AssignedAnywhere(assignments)
       /\ DOMAIN employees[e].station_competencies # {}

EntriesOf(key) ==
  {i \in 1..Len(assignment_logs) :
     /\ assignment_logs[i].log_date = key[1]
     /\ assignment_logs[i].employee_id = key[2]
     /\ assignment_logs[i].station_id = key[3]}

OneEntryPerKey ==
  \A i, j \in 1..Len(assignment_logs) :
    (/\ assignment_logs[i].log_date = assignment_logs[j].log_date
     /\ assignment_logs[i].employee_id = assignment_logs[j].employee_id
     /\ assignment_logs[i].station_id = assignment_logs[j].station_id)
    => i = j

FinalizedHoursKept ==
  \A k \in 1..Len(last.detail) :
    LET new == last.detail[k]
    IN \E i \in EntriesOf(<<new.log_date, new.employee_id, new.station_id>>) :
         assignment_logs[i].hours = new.hours

\* C22: starting from a log with at most one entry per (date, worker id,
\* station id), every step leaves at most one entry per key; after a
\* Finalize Day the entry of each finalized key carries the hours of that
\* finalization, and generate_schedule, handle_absence and the override do
\* not write the log, so a key carries the hours of its latest finalization.
C22_OneEntryPerKey ==
  [][/\ OneEntryPerKey'
      /\ ((last'.op = "finalize_day") => FinalizedHoursKept')
      /\ ((last'.op # "finalize_day") => UNCHANGED assignment_logs)]_vars

\* a day that was in the log with 8 hours was finalized again with 4 hours
\* after the schedule had been changed, and the log holds another key too
C22_Witness ==
  /\ last.op = "finalize_day"
  /\ Len(assignment_logs) >= 2
  /\ \E k \in 1..Len(last.detail) :
       /\ last.detail[k].hours = 4
       /\ last.detail[k].log_date = IsoDate(Today)
       /\ last.detail[k].employee_id = "e1"
       /\ last.detail[k].station_id = "s1"
  /\ absent_employees # {}

\* the ranking keys of a and b at a station differ: the priority scores
\* when statistics are used, the (certification_level, competency) pairs
\* otherwise
KeysDiffer(a, b, st, rs, w) ==
  IF rs.is_none
  THEN PairGreater(a, b, st) \/ PairGreater(b, a, st)
  ELSE ScoreOf(a, st, rs, w) # ScoreOf(b, st, rs, w)

RankingTotal(rs, w) ==
  \A i \in 1..Len(assignments) :
    \A a, b \in Candidates(i) :
      a # b => KeysDiffer(a, b, StationAt(i), rs, w)

\* the ranking of the generation just made was total
RankingTotalNow == RankingTotal(last.rotation_stats, SCENARIOS[scenario])

PositionIn(sts, sid) == CHOOSE k \in 1..Len(sts) : sts[k].id = sid

\* the Assignment map lists the stations by required_skill_level
\* descending, and those of equal level in the order of the station map
ProcessedInOrder ==
  \A i, j \in 1..Len(assignments) :
    i < j =>
      \/ StationAt(i).required_skill_level > StationAt(j).required_skill_level
      \/ /\ StationAt(i).required_skill_level
              = StationAt(j).required_skill_level
         /\ PositionIn(stations, assignments[i].station_id)
              < PositionIn(stations, assignments[j].station_id)

\* C31: when at every station's turn of a generate_schedule the qualified
\* available candidates have pairwise distinct ranking keys, every run
\* from the same state with the same scenario produces the same assignment
\* map and available set; the stations are processed by required skill
\* descending, equal levels in their original order.
C31_DeterministicWhenTotal ==
  [][(last'.op = "generate_schedule") =>
       /\ ProcessedInOrder'
       /\ RankingTotalNow' =>
            \A r \in generate_schedule_outcomes(stations, employees,
                         absent_employees, assignment_logs,
                         SCENARIOS[scenario']) :
              /\ r.assignments = assignments'
              /\ r.available = available_employees']_vars

\* a generation with the scorer in which a station had more candidates
\* than slots, all with different scores
C31_Witness ==
  /\ last.op = "generate_schedule" /\ ~last.rotation_stats.is_none
  /\ RankingTotalNow
  /\ \E i \in 1..Len(assignments) :
       /\ Assigned(i) # <<>>
       /\ Candidates(i) \ Range(Assigned(i)) # {}

\* C32: no absent worker holds a slot: the workers assigned to any station
\* are disjoint from the absent set in every reachable state.
C32_NoAbsentAssigned ==
  \A i \in 1..Len(assignments) :
    Range(Assigned(i)) \cap absent_employees = {}

\* a worker who held a slot was marked absent through handle_absence and
\* the slot was given to another worker
C32_Witness ==
  /\ last.op = "handle_absence" /\ last.ret_affected # <<>>
  /\ last.arg \in absent_employees
  /\ \E i \in 1..Len(assignments) :
       /\ assignments[i].station_id \in Range(last.ret_affected)
       /\ Assigned(i) # <<>>

\* C33: in every reachable state the available set equals all workers
\* minus the absent set minus the workers assigned to any station.
C33_AvailableIsComplement ==
  available_employees =
    (DOMAIN employees \ absent_employees)
      \ UNION {Range(Assigned(i)) : i \in 1..Len(assignments)}

\* C34: handle_absence(w) moves no worker between stations: the Assignment
\* of a station that did not hold w is unchanged, every other worker who
\* was assigned is still assigned to the same station, and the workers
\* added were in the available set.
C34_AbsenceMovesNoOne ==
  [][(last'.op = "handle_absence" /\ ~last'.raised) =>
       /\ Len(assignments') = Len(assignments)
       /\ \A i \in 1..Len(assignments) :
            /\ assignments'[i].station_id = assignments[i].station_id
            /\ (last'.arg \notin Range(Assigned(i)))
                 => assignments'[i] = assignments[i]
            /\ Range(Assigned(i)) \ {last'.arg}
                 \subseteq Range(assignments'[i].assigned_employee_ids)
            /\ Range(assignments'[i].assigned_employee_ids)
                  \ Range(Assigned(i))
                 \subseteq available_employees \ {last'.arg}]_vars

\* an absence affected one station while another station, which did not
\* hold the worker, has an open slot
C34_Witness ==
  /\ last.op = "handle_absence" /\ last.ret_affected # <<>>
  /\ \E i, j \in 1..Len(assignments) :
       /\ i # j
       /\ assignments[i].station_id \in Range(last.ret_affected)
       /\ assignments[j].unfilled_slots > 0

\* C35: a second handle_absence(w) directly after a first returns the
\* empty list and leaves the assignments, the available set and the absent
\* set as the first call left them.
C35_AbsenceIdempotent ==
  [][(/\ last.op = "handle_absence" /\ ~last.raised
      /\ last'.op = "handle_absence" /\ last'.arg = last.arg) =>
       /\ ~last'.raised
       /\ last'.ret_affected = <<>>
       /\ UNCHANGED <<assignments, available_employees,
                      absent_employees>>]_vars

\* handle_absence returned the empty list for a worker who is absent and
\* holds no slot, as a repeated call finds it, while a station has an
\* open slot
C35_Witness ==
  /\ last.op = "handle_absence" /\ ~last.raised
  /\ last.ret_affected = <<>>
  /\ last.arg \in absent_employees
  /\ \E i \in 1..Len(assignments) :
       Assigned(i) = <<>> /\ assignments[i].unfilled_slots > 0

RankedWithBalanced == TurnsRanked(last.rotation_stats, SCENARIOS["Balanced"])

\* C36: the snapshot has no scenario: a scheduler restored by from_json
\* has the Balanced weights active whatever scenario was active before, and
\* a generate_schedule without argument directly after the restore ranks
\* with Balanced.
C36_RestoreResetsScenario ==
  [][/\ ((last'.op = "from_json" /\ ~last'.raised) =>
           /\ scenario' = "Balanced"
           /\ \A doc \in to_json(stations, employees, assignments,
                                  available_employees, absent_employees,
                                  assignment_logs) :
                "scenario" \notin DOMAIN doc)
      /\ ((/\ last.op = "from_json" /\ ~last.raised
           /\ last'.op = "generate_schedule" /\ last'.arg = "None") =>
           /\ scenario' = "Balanced"
           /\ (assignment_logs # <<>> => RankedWithBalanced'))]_vars

\* a scheduler with Cross-Training active, a schedule, an absent worker
\* and a log was saved and restored, and Balanced is active
C36_Witness ==
  /\ last.op = "from_json" /\ ~last.raised
  /\ last.detail = <<"Cross-Training">>
  /\ scenario = "Balanced"
  /\ assignment_logs # <<>>
  /\ absent_employees # {}
  /\ AssignedAnywhere(assignments) # {}

\* C37: every key of the assignment map is a known station id, and every
\* id in an assigned list, in the available set and in the absent set is a
\* known worker id, so that get_schedule_summary finds every station and
\* reports each Assignment.
C37_ReferentialIntegrity ==
  /\ \A i \in 1..Len(assignments) :
       /\ assignments[i].station_id \in {stations[k].id : k \in 1..Len(stations)}
       /\ Range(Assigned(i)) \subseteq DOMAIN employees
  /\ available_employees \subseteq DOMAIN employees
  /\ absent_employees \subseteq DOMAIN employees
  /\ ~get_schedule_summary_raises(stations, assignments)
  /\ Len(get_schedule_summary(stations, assignments)) = Len(assignments)

\* a worker was removed while another holds a slot, after a station and
\* its Assignment had been removed
C37_Witness ==
  /\ last.op = "remove_employee"
  /\ Len(stations) = 1 /\ Len(assignments) = 1
  /\ Assigned(1) # <<>>
  /\ DOMAIN employees # {}

\* C38: for every log that Finalize Day can produce, each entry of the
\* rotation statistics has days_since_last >= 0, and the recency_score and
\* fatigue_score the scorer takes from it lie in [0, 1].
C38_ScoresInUnitInterval ==
  (last.op = "generate_schedule" /\ ~last.rotation_stats.is_none) =>
    \A key \in DOMAIN last.rotation_stats.stats :
      LET rs == last.rotation_stats.stats[key]
          recency30 == IF rs.days_since_last < 30
                       THEN rs.days_since_last ELSE 30
          fatigue240 == IF rs.total_hours < 240 THEN rs.total_hours ELSE 240
      IN /\ rs.days_since_last >= 0
         /\ 0 <= recency30 /\ recency30 <= 30
         /\ 0 <= fatigue240 /\ fatigue240 <= 240

FinalizedKeys ==
  {<<last.detail[k].log_date, last.detail[k].employee_id,
     last.detail[k].station_id>> : k \in 1..Len(last.detail)}

KeyAt(logs, i) == <<logs[i].log_date, logs[i].employee_id, logs[i].station_id>>

\* C39: Finalize Day removes no log entry: every entry keeps its position
\* and, unless its key is one of the finalized (date, worker, station)
\* triples, its content; the entries added are the finalized ones.  So the
\* entries of a date for pairs that are no longer assigned stay in the log
\* when the date is finalized again.
C39_FinalizeNeverRemoves ==
  [][(last'.op = "finalize_day") =>
       /\ Len(assignment_logs') >= Len(assignment_logs)
       /\ \A i \in 1..Len(assignment_logs) :
            /\ KeyAt(assignment_logs', i) = KeyAt(assignment_logs, i)
            /\ (KeyAt(assignment_logs, i) \notin FinalizedKeys')
                 => assignment_logs'[i] = assignment_logs[i]
       /\ \A i \in (Len(assignment_logs) + 1)..Len(assignment_logs') :
            KeyAt(assignment_logs', i) \in FinalizedKeys'
       /\ \A k \in 1..Len(last'.detail) :
            \E a \in 1..Len(assignments) :
              /\ assignments[a].station_id = last'.detail[k].station_id
              /\ last'.detail[k].employee_id \in Range(Assigned(a))]_vars

\* a date was finalized again after the schedule had changed: the log has
\* an entry of that date for a pair that is no longer assigned, next to the
\* entry just written
C39_Witness ==
  /\ last.op = "finalize_day"
  /\ \E i \in 1..Len(assignment_logs) :
       /\ assignment_logs[i].log_date = last.detail[1].log_date
       /\ KeyAt(assignment_logs, i) \notin FinalizedKeys
       /\ \A a \in 1..Len(assignments) :
            \/ assignments[a].station_id # assignment_logs[i].station_id
            \/ assignment_logs[i].employee_id \notin Range(Assigned(a))

====
